---- MODULE Spec2Model ----
(***************************************************************************)
(* Model of impeller::TextureFilterInput                                   *)
(* (impeller/entity/contents/filters/inputs/texture_filter_input.cc).      *)
(*                                                                         *)
(* One TextureFilterInput object is constructed from a texture handle and  *)
(* a local transform and is then queried through its four const methods.   *)
(*                                                                         *)
(* Scalars are C++ floats in the source.  Every value used here is a small *)
(* dyadic rational, on which float arithmetic is exact; the model keeps    *)
(* them as exact fractions: a Matrix, a Point and a Rect carry integer     *)
(* numerators and one common positive denominator `den`.                   *)
(***************************************************************************)
EXTENDS Integers, FiniteSets

VARIABLES
    pc,                \* "unconstructed", "live" or "crashed" (process aborted)
    texture_,          \* TextureFilterInput::texture_   (a handle, NULL or a texture)
    local_transform_,  \* TextureFilterInput::local_transform_
    ctor,              \* the arguments the constructor was called with
    nullPage,          \* what a read through the stored null handle yields
    inp,               \* last GetInput call
    snap,              \* last GetSnapshot call
    snapPrev,          \* the GetSnapshot call before it, if for the same entity
    cov,               \* last GetCoverage call
    covPrev,           \* the GetCoverage call before it, if for the same entity
    lt                 \* last GetLocalTransform call

vars == <<pc, texture_, local_transform_, ctor, nullPage, inp,
          snap, snapPrev, cov, covPrev, lt>>

----------------------------------------------------------------------------
(* Bounds of the model *)

\* mip-level counts range over 0..MaxMipCount
MaxMipCount == 3

----------------------------------------------------------------------------
(* Geometry primitives: Matrix, Point, Rect (impeller/geometry) *)

\* Column-major 2D affine part of impeller::Matrix:
\*   x' = (a*x + c*y + tx) / den,   y' = (b*x + d*y + ty) / den
Mat(a, b, c, d, tx, ty, den) ==
    [a |-> a, b |-> b, c |-> c, d |-> d, tx |-> tx, ty |-> ty, den |-> den]

Identity      == Mat(1, 0, 0, 1, 0, 0, 1)
Translate     == Mat(1, 0, 0, 1, 10, 20, 1)     \* translation by (10, 20)
ScaleHalf     == Mat(1, 0, 0, 1, 0, 0, 2)       \* uniform scale 0.5
Rotate90      == Mat(0, 1, -1, 0, 0, 0, 1)      \* quarter turn
MirrorX       == Mat(-1, 0, 0, 1, 0, 0, 1)      \* scale (-1, 1)
CollapseY     == Mat(1, 0, 0, 0, 0, 0, 1)       \* scale (1, 0): not invertible
ZeroScale     == Mat(0, 0, 0, 0, 0, 0, 1)       \* scale (0, 0): not invertible

\* Matrix::operator*: Multiply(A, B) applies B to a point first, then A.
Multiply(A, B) ==
    Mat(A.a * B.a + A.c * B.b,
        A.b * B.a + A.d * B.b,
        A.a * B.c + A.c * B.d,
        A.b * B.c + A.d * B.d,
        A.a * B.tx + A.c * B.ty + A.tx * B.den,
        A.b * B.tx + A.d * B.ty + A.ty * B.den,
        A.den * B.den)

\* Matrix::GetDeterminant of the affine part, scaled by den^2 (the sign and
\* the zero test are those of the determinant).
Determinant(M) == M.a * M.d - M.c * M.b

\* Matrix::IsInvertible
IsInvertible(M) == Determinant(M) # 0

Pt(x, y, den) == [x |-> x, y |-> y, den |-> den]

\* Matrix * Point
TransformPoint(M, p) ==
    Pt(M.a * p.x + M.c * p.y + M.tx * p.den,
       M.b * p.x + M.d * p.y + M.ty * p.den,
       M.den * p.den)

\* Rect{origin, size}
MakeXYWH(x, y, w, h, den) == [x |-> x, y |-> y, w |-> w, h |-> h, den |-> den]

\* Rect::MakeSize
MakeSize(size) == MakeXYWH(0, 0, size.width, size.height, 1)

Min2(a, b) == IF a <= b THEN a ELSE b
Max2(a, b) == IF a >= b THEN a ELSE b

\* Rect::GetPoints: the four corners, all over the rectangle's denominator
GetPoints(r) ==
    << Pt(r.x, r.y, r.den), Pt(r.x + r.w, r.y, r.den),
       Pt(r.x, r.y + r.h, r.den), Pt(r.x + r.w, r.y + r.h, r.den) >>

\* Rect::MakePointBounds over four points that share one denominator
MakePointBounds(ps) ==
    LET left   == Min2(Min2(ps[1].x, ps[2].x), Min2(ps[3].x, ps[4].x))
        top    == Min2(Min2(ps[1].y, ps[2].y), Min2(ps[3].y, ps[4].y))
        right  == Max2(Max2(ps[1].x, ps[2].x), Max2(ps[3].x, ps[4].x))
        bottom == Max2(Max2(ps[1].y, ps[2].y), Max2(ps[3].y, ps[4].y))
    IN  MakeXYWH(left, top, right - left, bottom - top, ps[1].den)

\* Rect::TransformBounds: transform the four corners, take their bounds
TransformBounds(r, M) ==
    LET ps == GetPoints(r)
    IN  MakePointBounds([i \in 1..4 |-> TransformPoint(M, ps[i])])

----------------------------------------------------------------------------
(* Textures, handles, entities *)

ISize(w, h) == [width |-> w, height |-> h]

TextureSizes == {ISize(100, 50), ISize(0, 50)}

\* A texture as seen through its handle: Texture::GetSize, Texture::GetMipCount
Textures == [size : TextureSizes, mip_count : 0..MaxMipCount]

\* The empty std::shared_ptr<Texture>
NULL == [null |-> TRUE]

Handles == Textures \cup {NULL}

\* Reading through a null handle is undefined behaviour: the read faults, or
\* it yields whatever the addressed memory holds (the same on every read,
\* as no method writes there).
FAULT == [fault |-> TRUE]

NullPages == {FAULT,
              [size |-> ISize(3, 2), mip_count |-> 0],
              [size |-> ISize(100, 50), mip_count |-> MaxMipCount]}

\* texture_-> : the object the handle designates
Deref(h) == IF h = NULL THEN nullPage ELSE h

LocalTransforms == {Identity, Translate, CollapseY}

EntityTransforms == {Identity, ScaleHalf, Rotate90, MirrorX, ZeroScale}

\* Entity: only its accumulated transform (Entity::GetTransformation) is read
Entities == [transformation : EntityTransforms]

\* ContentContext: two renderer contexts
Renderers == {"renderer1", "renderer2"}

----------------------------------------------------------------------------
(* Values returned by the methods *)

Some(v) == [present |-> TRUE, value |-> v]
nullopt == [present |-> FALSE]

NoCall == [called |-> FALSE]
Call(entity, result) == [called |-> TRUE, entity |-> entity, result |-> result]

\* SamplerDescriptor{} : the default sampler (no filtering across mip levels,
\* no label)
DefaultSamplerDescriptor == [mip_filter |-> "kNearest", label |-> ""]

----------------------------------------------------------------------------
(* TextureFilterInput *)

Init ==
    /\ pc = "unconstructed"
    /\ texture_ = NULL
    /\ local_transform_ = Identity
    /\ ctor = NoCall
    /\ nullPage = FAULT
    /\ inp = NoCall
    /\ snap = NoCall /\ snapPrev = NoCall
    /\ cov = NoCall /\ covPrev = NoCall
    /\ lt = NoCall

\* TextureFilterInput::TextureFilterInput(texture, local_transform):
\* both members are initialised from the arguments; nothing is validated.
\* Storing a null handle makes every later texture_-> undefined; which of
\* its outcomes this run shows is left open here.
Construct(texture, local_transform) ==
    /\ pc = "unconstructed"
    /\ texture_' = texture
    /\ local_transform_' = local_transform
    /\ nullPage' \in (IF texture = NULL THEN NullPages ELSE {FAULT})
    /\ ctor' = [called |-> TRUE, texture |-> texture,
                local_transform |-> local_transform]
    /\ pc' = "live"
    /\ UNCHANGED <<inp, snap, snapPrev, cov, covPrev, lt>>

\* TextureFilterInput::GetInput: the Variant holding texture_
GetInput ==
    /\ pc = "live"
    /\ inp' = [called |-> TRUE, result |-> [texture |-> texture_]]
    /\ UNCHANGED <<pc, texture_, local_transform_, ctor, nullPage,
                   snap, snapPrev, cov, covPrev, lt>>

\* A plausible slip: the entity's transform is composed into the result.
GetLocalTransformValueComposed(entity) ==
    Multiply(entity.transformation, local_transform_)

\* The value TextureFilterInput::GetLocalTransform(entity) returns
GetLocalTransformValue(entity) == local_transform_

\* FilterInput::GetTransform(entity): the local transform is applied to a
\* point first, the entity's accumulated transform second.
GetTransform(entity) ==
    Multiply(entity.transformation, GetLocalTransformValue(entity))

\* TextureFilterInput::GetLocalTransform
GetLocalTransform(entity) ==
    /\ pc = "live"
    /\ lt' = Call(entity, GetLocalTransformValue(entity))
    /\ UNCHANGED <<pc, texture_, local_transform_, ctor, nullPage, inp,
                   snap, snapPrev, cov, covPrev>>

\* A plausible slip: the trilinear sampler is chosen from one mip level on.
MakeSnapshotFromOneLevel(t, transform) ==
    LET snapshot == [texture            |-> texture_,
                     transform          |-> transform,
                     sampler_descriptor |-> DefaultSamplerDescriptor]
    IN  IF t.mip_count >= 1
        THEN [snapshot EXCEPT
                !.sampler_descriptor.label =
                    "TextureFilterInput Trilinear Sampler",
                !.sampler_descriptor.mip_filter = "kLinear"]
        ELSE snapshot

\* The Snapshot that GetSnapshot builds, when texture_-> designates t:
\* Snapshot{.texture = texture_, .transform = transform}, then the sampler
\* override for a texture with more than one mip level.
MakeSnapshot(t, transform) ==
    LET snapshot == [texture            |-> texture_,
                     transform          |-> transform,
                     sampler_descriptor |-> DefaultSamplerDescriptor]
    IN  IF t.mip_count > 1
        THEN [snapshot EXCEPT
                !.sampler_descriptor.label =
                    "TextureFilterInput Trilinear Sampler",
                !.sampler_descriptor.mip_filter = "kLinear"]
        ELSE snapshot

\* A plausible slip: an empty texture yields no snapshot.
GetSnapshotValueEmptyIsNone(t, renderer, entity) ==
    IF t.size.width = 0 \/ t.size.height = 0
    THEN nullopt
    ELSE Some(MakeSnapshot(t, GetTransform(entity)))

\* A plausible slip: the two transforms are composed in the other order.
GetSnapshotValueSwapped(t, renderer, entity) ==
    Some(MakeSnapshot(t, Multiply(GetLocalTransformValue(entity),
                                  entity.transformation)))

\* A plausible slip: the entity's transform is left out.
GetSnapshotValueLocalOnly(t, renderer, entity) ==
    Some(MakeSnapshot(t, GetLocalTransformValue(entity)))

\* The value TextureFilterInput::GetSnapshot(renderer, entity) returns when
\* texture_-> designates t
GetSnapshotValue(t, renderer, entity) ==
    Some(MakeSnapshot(t, GetTransform(entity)))

\* TextureFilterInput::GetSnapshot
GetSnapshot(renderer, entity) ==
    /\ pc = "live"
    /\ LET t == Deref(texture_)
       IN  IF t = FAULT
           THEN /\ pc' = "crashed"
                /\ UNCHANGED <<snap, snapPrev>>
           ELSE /\ snap' = Call(entity, GetSnapshotValue(t, renderer, entity))
                /\ snapPrev' = IF snap.called /\ snap.entity = entity
                                THEN snap ELSE NoCall
                /\ pc' = pc
    /\ UNCHANGED <<texture_, local_transform_, ctor, nullPage, inp,
                   cov, covPrev, lt>>

\* A plausible slip: the local transform is left out of the coverage.
GetCoverageValueEntityOnly(t, entity) ==
    Some(TransformBounds(MakeSize(t.size), entity.transformation))

\* A plausible slip: only the origin and the opposite corner are transformed
\* and their difference is taken as the size.
GetCoverageValueTwoCorners(t, entity) ==
    LET M  == GetTransform(entity)
        p1 == TransformPoint(M, Pt(0, 0, 1))
        p2 == TransformPoint(M, Pt(t.size.width, t.size.height, 1))
    IN  Some(MakeXYWH(p1.x, p1.y, p2.x - p1.x, p2.y - p1.y, p1.den))

\* A plausible slip: an empty source rectangle yields no coverage.
GetCoverageValueEmptyIsNone(t, entity) ==
    IF t.size.width = 0 \/ t.size.height = 0
    THEN nullopt
    ELSE Some(TransformBounds(MakeSize(t.size), GetTransform(entity)))

\* The value TextureFilterInput::GetCoverage(entity) returns when texture_->
\* designates t
GetCoverageValue(t, entity) ==
    Some(TransformBounds(MakeSize(t.size), GetTransform(entity)))

\* A plausible slip: the composed transform is kept in the member.
GetCoverageCaching(entity) ==
    /\ pc = "live"
    /\ LET t == Deref(texture_)
       IN  IF t = FAULT
           THEN /\ pc' = "crashed"
                /\ UNCHANGED <<cov, covPrev, local_transform_>>
           ELSE /\ cov' = Call(entity, GetCoverageValue(t, entity))
                /\ covPrev' = IF cov.called /\ cov.entity = entity
                               THEN cov ELSE NoCall
                /\ local_transform_' = GetTransform(entity)
                /\ pc' = pc
    /\ UNCHANGED <<texture_, ctor, nullPage, inp, snap, snapPrev, lt>>

\* TextureFilterInput::GetCoverage
GetCoverage(entity) ==
    /\ pc = "live"
    /\ LET t == Deref(texture_)
       IN  IF t = FAULT
           THEN /\ pc' = "crashed"
                /\ UNCHANGED <<cov, covPrev>>
           ELSE /\ cov' = Call(entity, GetCoverageValue(t, entity))
                /\ covPrev' = IF cov.called /\ cov.entity = entity
                               THEN cov ELSE NoCall
                /\ pc' = pc
    /\ UNCHANGED <<texture_, local_transform_, ctor, nullPage, inp,
                   snap, snapPrev, lt>>

Next ==
    \/ \E texture \in Handles, local_transform \in LocalTransforms :
          Construct(texture, local_transform)
    \/ GetInput
    \/ \E renderer \in Renderers, entity \in Entities :
          GetSnapshot(renderer, entity)
    \/ \E entity \in Entities : GetCoverage(entity)
    \/ \E entity \in Entities : GetLocalTransform(entity)

Spec == Init /\ [][Next]_vars

----------------------------------------------------------------------------
(* Vocabulary of the properties *)

HoldsTexture == pc # "unconstructed" /\ texture_ # NULL

IsEmptySize(size) == size.width = 0 \/ size.height = 0

\* The corners of [0, 0, w, h] under M
Corners(M, size) ==
    { TransformPoint(M, Pt(x, y, 1)) : x \in {0, size.width},
                                       y \in {0, size.height} }

\* r is the axis-aligned bounding rectangle of the points ps: every point
\* lies within r and every edge of r passes through one of them.  Fractions
\* are compared by cross-multiplication (all denominators are positive).
IsBoundsOf(r, ps) ==
    /\ r.den > 0
    /\ \A p \in ps :
          /\ p.den > 0
          /\ r.x * p.den <= p.x * r.den
          /\ p.x * r.den <= (r.x + r.w) * p.den
          /\ r.y * p.den <= p.y * r.den
          /\ p.y * r.den <= (r.y + r.h) * p.den
    /\ \E p \in ps : p.x * r.den = r.x * p.den
    /\ \E p \in ps : p.x * r.den = (r.x + r.w) * p.den
    /\ \E p \in ps : p.y * r.den = r.y * p.den
    /\ \E p \in ps : p.y * r.den = (r.y + r.h) * p.den

\* r is the rectangle (x, y, w, h)
RectIs(r, x, y, w, h) ==
    /\ r.x = x * r.den /\ r.y = y * r.den
    /\ r.w = w * r.den /\ r.h = h * r.den

\* the same point, as fractions
PtEq(p, q) == p.x * q.den = q.x * p.den /\ p.y * q.den = q.y * p.den

ProbePoints == {Pt(0, 0, 1), Pt(1, 0, 1), Pt(0, 1, 1), Pt(7, -3, 1)}

----------------------------------------------------------------------------
(* C1 *)

CoverageCase ==
    /\ HoldsTexture
    /\ snap.called /\ cov.called /\ snap.entity = cov.entity
    /\ texture_.size.width > 0 /\ texture_.size.height > 0
    /\ IsInvertible(cov.entity.transformation)

\* C1: over a texture of positive size and under a non-degenerate entity
\* transform, GetCoverage(entity) is the axis-aligned bounding rectangle of
\* the four corners of [0,0,w,h] transformed by the transform of the
\* snapshot GetSnapshot returns for the same entity; with an identity local
\* transform a 100x50 texture gives (0,0,100,50) under the identity and
\* (0,0,50,25) under a uniform 0.5 scale.
CoverageAgreesWithSnapshot ==
    CoverageCase =>
        /\ snap.result.present /\ cov.result.present
        /\ IsBoundsOf(cov.result.value,
                      Corners(snap.result.value.transform, texture_.size))
        /\ (/\ local_transform_ = Identity
            /\ texture_.size = ISize(100, 50)
            /\ cov.entity.transformation = Identity)
              => RectIs(cov.result.value, 0, 0, 100, 50)
        /\ (/\ local_transform_ = Identity
            /\ texture_.size = ISize(100, 50)
            /\ cov.entity.transformation = ScaleHalf)
              => RectIs(cov.result.value, 0, 0, 50, 25)

CoverageAgreesWitness ==
    /\ CoverageCase
    /\ local_transform_ = Translate
    /\ cov.entity.transformation = Rotate90

----------------------------------------------------------------------------
(* C2 *)

\* C2: for a texture with mip-level count m the returned snapshot's sampler
\* has mip_filter linear iff m > 1; when m > 1 it carries a non-empty label,
\* and when m <= 1 the sampler descriptor is the default one.
MipSamplerPolicy ==
    (HoldsTexture /\ snap.called /\ snap.result.present) =>
        LET m  == texture_.mip_count
            sd == snap.result.value.sampler_descriptor
        IN  /\ (sd.mip_filter = "kLinear") <=> (m > 1)
            /\ (m > 1) => sd.label # ""
            /\ (m <= 1) => sd = DefaultSamplerDescriptor

MipSamplerLinearWitness ==
    /\ HoldsTexture /\ snap.called /\ snap.result.present
    /\ texture_.mip_count > 1
    /\ snap.result.value.sampler_descriptor.mip_filter = "kLinear"

----------------------------------------------------------------------------
(* C3 *)

\* C3: construction with a null texture handle is rejected: no
\* TextureFilterInput ever exists whose held texture handle is null.
NeverHoldsNullTexture == pc # "unconstructed" => texture_ # NULL

----------------------------------------------------------------------------
(* C4 *)

DegenerateCase ==
    /\ HoldsTexture /\ cov.called
    /\ \/ IsEmptySize(texture_.size)
       \/ ~IsInvertible(cov.entity.transformation)

\* C4 as claimed: degenerate geometry (a zero-area source rectangle or a
\* non-invertible entity transform) makes GetCoverage return the absent
\* optional.
DegenerateCoverageIsAbsent == DegenerateCase => ~cov.result.present

\* C4 as amended: on degenerate geometry GetCoverage raises no error and
\* returns a present rectangle, the bounding rectangle of the transformed
\* corners of the source rectangle; it is never the absent optional.
DegenerateCoverageIsPresent ==
    DegenerateCase =>
        /\ pc = "live"
        /\ cov.result.present
        /\ IsBoundsOf(cov.result.value,
                      Corners(Multiply(cov.entity.transformation,
                                       ctor.local_transform),
                              texture_.size))
        /\ cov.entity.transformation = ZeroScale =>
              (cov.result.value.w = 0 /\ cov.result.value.h = 0)

DegenerateCoverageWitness ==
    /\ DegenerateCase
    /\ IsEmptySize(texture_.size)
    /\ cov.entity.transformation = Rotate90
    /\ cov.result.present
    /\ cov.result.value.w > 0 /\ cov.result.value.h = 0

----------------------------------------------------------------------------
(* C5 *)

\* C5: while the held texture handle is valid, GetSnapshot never returns
\* "no result" (and never fails): every call returns a present Snapshot.
SnapshotAlwaysPresent ==
    HoldsTexture =>
        /\ pc = "live"
        /\ snap.called => snap.result.present

SnapshotPresentWitness ==
    /\ HoldsTexture /\ snap.called /\ snap.result.present
    /\ IsEmptySize(texture_.size)
    /\ texture_.mip_count = 0
    /\ snap.entity.transformation = ZeroScale

----------------------------------------------------------------------------
(* C6 *)

\* C6: the transform of the returned snapshot maps a point as the local
\* transform followed by the entity's accumulated transform, whatever the
\* renderer context.
SnapshotTransformComposition ==
    (snap.called /\ snap.result.present) =>
        \A p \in ProbePoints :
            PtEq(TransformPoint(snap.result.value.transform, p),
                 TransformPoint(snap.entity.transformation,
                                TransformPoint(local_transform_, p)))

SnapshotTransformWitness ==
    /\ snap.called /\ snap.result.present
    /\ local_transform_ = Translate
    /\ snap.entity.transformation = ScaleHalf
    /\ PtEq(TransformPoint(snap.result.value.transform, Pt(0, 0, 1)),
            Pt(5, 10, 1))

----------------------------------------------------------------------------
(* C7 *)

\* C7: after any sequence of GetInput, GetSnapshot, GetCoverage and
\* GetLocalTransform calls the held texture handle and the local transform
\* are the ones the object was constructed with, and a GetSnapshot or
\* GetCoverage call repeated with an identical entity returns what the call
\* before it returned.
QueriesAreIdempotent ==
    pc # "unconstructed" =>
        /\ texture_ = ctor.texture
        /\ local_transform_ = ctor.local_transform
        /\ snapPrev.called => snapPrev.result = snap.result
        /\ covPrev.called => covPrev.result = cov.result

QueriesIdempotentWitness ==
    /\ pc = "live"
    /\ inp.called /\ lt.called
    /\ snapPrev.called /\ covPrev.called
    /\ snap.entity.transformation = ScaleHalf
    /\ cov.entity.transformation = ScaleHalf
    /\ local_transform_ = Translate

----------------------------------------------------------------------------
(* C8 *)

\* C8: GetLocalTransform returns the same matrix for any two entities, the
\* local transform given to the constructor.
LocalTransformIndependent ==
    pc = "live" =>
        /\ \A e1, e2 \in Entities :
              /\ GetLocalTransformValue(e1) = GetLocalTransformValue(e2)
              /\ GetLocalTransformValue(e1) = ctor.local_transform
        /\ lt.called => lt.result = ctor.local_transform

LocalTransformWitness ==
    /\ pc = "live" /\ lt.called
    /\ lt.entity.transformation = Rotate90
    /\ ctor.local_transform = Translate
    /\ lt.result = Translate

----------------------------------------------------------------------------
(* C9 *)

\* C9 as claimed: the transform of every Snapshot GetSnapshot produces is
\* invertible.
SnapshotTransformInvertible ==
    (snap.called /\ snap.result.present) =>
        IsInvertible(snap.result.value.transform)

\* C9 as amended: the transform of a Snapshot GetSnapshot produces is
\* invertible exactly when both the local transform given to the
\* constructor and the entity's transform are invertible; neither is
\* validated.
SnapshotTransformInvertibleIff ==
    (snap.called /\ snap.result.present) =>
        (IsInvertible(snap.result.value.transform)
            <=> (/\ IsInvertible(ctor.local_transform)
                 /\ IsInvertible(snap.entity.transformation)))

SnapshotSingularWitness ==
    /\ snap.called /\ snap.result.present
    /\ ctor.local_transform = Identity
    /\ snap.entity.transformation = ZeroScale
    /\ ~IsInvertible(snap.result.value.transform)

----------------------------------------------------------------------------
(* C10 *)

\* C10: every rectangle GetCoverage returns has non-negative width and
\* height, also under transforms that mirror or rotate the source rectangle.
CoverageNonNegative ==
    (cov.called /\ cov.result.present) =>
        /\ cov.result.value.den > 0
        /\ cov.result.value.w >= 0
        /\ cov.result.value.h >= 0

CoverageMirroredWitness ==
    /\ HoldsTexture /\ cov.called /\ cov.result.present
    /\ texture_.size = ISize(100, 50)
    /\ local_transform_ = Identity
    /\ cov.entity.transformation = MirrorX
    /\ RectIs(cov.result.value, -100, 0, 100, 50)

====
